---- MODULE Spec2Model ----
(***************************************************************************)
(* Cache layer of the GitHub command-line client: CacheManager             *)
(* (src/src/cacheManager.ts), the DataService that drives it              *)
(* (src/unnamed/part_001) and the GitHubAPIClient it fetches from          *)
(* (src/src/apiClient.ts).                                                 *)
(*                                                                         *)
(* Strings are sequences of one-character strings, so that template       *)
(* strings and JSON.stringify are modelled by the characters they emit.    *)
(***************************************************************************)
EXTENDS Integers, Sequences, FiniteSets, TLC

VARIABLES
    now,      \* Date.now(), in milliseconds
    cache,    \* CacheManager.cache: the value loadCache returned, then the map
    file,     \* the content of cache.json as the JSON value it holds
    calls,    \* DataService calls suspended at their `await`
    last,     \* the CacheManager call that has just returned: arguments and result
    ret,      \* the DataService call that has just completed: arguments and outcome
    written,  \* history: per (endpoint, params) the payload and time of its latest set
    fails,    \* history: how many writes of cache.json have failed
    stored    \* history: the sets whose write of cache.json succeeded and that
              \* no set, clear, cleanup or truncated write has undone since

vars == <<now, cache, file, calls, last, ret, written, fails, stored>>

-----------------------------------------------------------------------------
(* Bounds of the model *)

MaxTicks == 2      \* the clock advances at most this many times
MaxEntries == 2    \* a set that would add a key beyond this many entries is not explored
MaxFailures == 1   \* at most this many writes of cache.json fail

-----------------------------------------------------------------------------
(* Program constants *)

cacheDuration == 300000
timeout == 10000

\* The clock advances in steps of half a TTL: ages 0, TTL/2, TTL, 3*TTL/2 occur.
TickStep == cacheDuration \div 2

-----------------------------------------------------------------------------
(* Strings *)

Chr(d) == CASE d = 0 -> "0" [] d = 1 -> "1" [] d = 2 -> "2" [] d = 3 -> "3"
            [] d = 4 -> "4" [] d = 5 -> "5" [] d = 6 -> "6" [] d = 7 -> "7"
            [] d = 8 -> "8" [] d = 9 -> "9"

\* Number.prototype.toString for a non-negative integer
RECURSIVE NumberToString(_)
NumberToString(n) ==
    IF n < 10 THEN <<Chr(n)>> ELSE NumberToString(n \div 10) \o <<Chr(n % 10)>>

\* JSON.stringify's string escaping of the quote and the backslash
RECURSIVE Escape(_)
Escape(s) ==
    IF s = <<>> THEN <<>>
    ELSE (IF Head(s) \in {"\"", "\\"} THEN <<"\\", Head(s)>> ELSE <<Head(s)>>)
         \o Escape(Tail(s))

Quote(s) == <<"\"">> \o Escape(s) \o <<"\"">>

\* Values a parameter can take: a string, an integer, the numbers NaN (parseInt
\* of a non-numeric option) and Infinity, or null.
StrV(s) == [t |-> "str", s |-> s]
NumV(n) == [t |-> "num", n |-> n]
NaNV == [t |-> "nan"]
InfinityV == [t |-> "infinity"]
NullV == [t |-> "null"]

\* JSON.stringify of one value: a number that is not finite serialises as null
JSONValue(v) ==
    CASE v.t = "str" -> Quote(v.s)
      [] v.t = "num" -> NumberToString(v.n)
      [] v.t \in {"nan", "infinity", "null"} -> <<"n", "u", "l", "l">>

\* The members of an object in insertion order: "name":value joined by commas
RECURSIVE JSONMembers(_)
JSONMembers(p) ==
    IF p = <<>> THEN <<>>
    ELSE Quote(p[1][1]) \o <<":">> \o JSONValue(p[1][2])
         \o (IF Len(p) > 1 THEN <<",">> ELSE <<>>) \o JSONMembers(Tail(p))

\* JSON.stringify(params): an object is a sequence of <<name, value>> pairs in
\* insertion order, which is the order JSON.stringify emits them in.
JSONStringify(p) == <<"{">> \o JSONMembers(p) \o <<"}">>

\* params?: Record<string, any>  --  undefined, or an object
NoParams == [some |-> FALSE]
Params(p) == [some |-> TRUE, p |-> p]

\* CacheManager.generateKey
generateKey(endpoint, params) ==
    LET paramsString == IF params.some THEN JSONStringify(params.p) ELSE <<>>
    IN  endpoint \o <<":">> \o paramsString

-----------------------------------------------------------------------------
(* JSON values: the cache object, the content of cache.json, payloads *)

EmptyMap == [k \in {} |-> 0]

Put(m, k, e) == [x \in (DOMAIN m) \cup {k} |-> IF x = k THEN e ELSE m[x]]

Restrict(m, ks) == [x \in ks |-> m[x]]

\* A JSON value by its kind; an object (and an array, which may carry named
\* properties in memory) has members m.
Val(kind, m) == [kind |-> kind, m |-> m]

EmptyObject == Val("object", EmptyMap)

\* Content of cache.json: no file, a file that cannot be read, text that is
\* not JSON, or the JSON value the text denotes.
FileAbsent == Val("absent", EmptyMap)
FileUnreadable == Val("unreadable", EmptyMap)
FileGarbage == Val("garbage", EmptyMap)

Null == [kind |-> "null"]
TypeError == [kind |-> "TypeError"]

\* A payload handed to set directly: `of` is the (endpoint, params) pair its
\* caller means it for, v tells the payloads of one pair apart.  Payloads are
\* decoded JSON documents (the response bodies the API client validated), which
\* JSON.stringify and JSON.parse carry unchanged.
Payload(of, v) == [kind |-> "payload", of |-> of, v |-> v]

\* CacheEntry
Entry(data, timestamp) == [data |-> data, timestamp |-> timestamp]

-----------------------------------------------------------------------------
(* CacheManager *)

\* loadCache as it would be if it started every process from an empty map
loadCacheEmpty(f) == EmptyObject

\* CacheManager.loadCache: existsSync false, readFileSync throwing and
\* JSON.parse throwing all end in {}; otherwise whatever JSON.parse returns.
loadCache(f) ==
    IF f.kind \in {"absent", "unreadable", "garbage"} THEN EmptyObject ELSE f

\* saveCache as it would be if it merged the entries into the file instead
\* of rewriting it in full
saveCacheAppend(c, f, disk) ==
    IF disk = "ok" /\ f.kind = "object" /\ c.kind = "object"
    THEN Val("object", [k \in (DOMAIN f.m) \cup (DOMAIN c.m) |->
                           IF k \in DOMAIN c.m THEN c.m[k] ELSE f.m[k]])
    ELSE IF disk = "ok" THEN c ELSE f

\* saveCache as it would be if a write that fails half way left a file that
\* parses, holding entries of the old file beside entries of the map
saveCacheMixture(c, f, disk) ==
    CASE disk = "ok" -> (IF c.kind = "array" THEN Val("array", EmptyMap) ELSE c)
      [] disk = "eopen" -> f
      [] disk = "ewrite" ->
            Val("object", [k \in (DOMAIN f.m) \cup (DOMAIN c.m) |->
                              IF k \in DOMAIN f.m THEN f.m[k] ELSE c.m[k]])

\* CacheManager.saveCache: the content of the file afterwards.  disk is what
\* writeFileSync does: "ok" writes the whole text, "eopen" fails before the
\* file is touched, "ewrite" fails after it was truncated (a proper prefix of
\* the text, which is never JSON).  JSON.stringify keeps an object of
\* {data, timestamp} entries as it is and drops the named properties of an
\* array.
saveCache(c, f, disk) ==
    CASE disk = "ok" -> (IF c.kind = "array" THEN Val("array", EmptyMap) ELSE c)
      [] disk = "eopen" -> f
      [] disk = "ewrite" -> FileGarbage

\* isValid as it would be with <= : an entry whose age equals the TTL is valid
isValidInclusive(entry, t) == (t - entry.timestamp) <= cacheDuration

\* CacheManager.isValid, with t the value of Date.now()
isValid(entry, t) == (t - entry.timestamp) < cacheDuration

\* this.cache[key] is an entry
HasEntry(c, key) == c.kind \in {"object", "array"} /\ key \in DOMAIN c.m

\* CacheManager.get: what the call returns (indexing null throws)
getResult(c, key, t) ==
    IF c.kind = "null" THEN TypeError
    ELSE IF HasEntry(c, key) /\ isValid(c.m[key], t) THEN c.m[key].data
    ELSE Null

\* get as it would be if it deleted the expired entry it finds
getCacheEvict(c, key, t) ==
    IF HasEntry(c, key) /\ ~isValid(c.m[key], t)
    THEN Val(c.kind, Restrict(c.m, (DOMAIN c.m) \ {key}))
    ELSE c

\* CacheManager.get: the cache afterwards (get assigns nothing)
getCache(c, key, t) == c

\* CacheManager.set throws on this.cache[key] = ... when the cache is null or
\* a primitive (strict mode)
setThrows(c) == c.kind \in {"null", "number"}

\* set as it would be if it kept an entry that is still valid
setCacheIfStale(c, key, data, t) ==
    IF HasEntry(c, key) /\ isValid(c.m[key], t) THEN c
    ELSE Val(c.kind, Put(c.m, key, Entry(data, t)))

\* set as it would be if it replaced the map by one holding its entry alone
setCacheAlone(c, key, data, t) == Val(c.kind, Put(EmptyMap, key, Entry(data, t)))

\* set as it would be if it stamped every entry of the map with the time
setCacheTouchAll(c, key, data, t) ==
    LET m == Put(c.m, key, Entry(data, t))
    IN  Val(c.kind, [k \in DOMAIN m |-> Entry(m[k].data, t)])

\* set as it would be if it stored nothing in memory
setCacheDrop(c, key, data, t) == c

\* CacheManager.set: the cache after this.cache[key] = {data, timestamp}
setCache(c, key, data, t) == Val(c.kind, Put(c.m, key, Entry(data, t)))

\* clear as it would be if it left the map as it is
clearCacheKeep(c) == c

\* CacheManager.clear: the cache after this.cache = {}
clearCache(c) == EmptyObject

\* Object.keys(this.cache) throws on null
keysThrows(c) == c.kind = "null"

\* The deleted keys as they would be if an entry whose age equals the TTL
\* were kept
ExpiredKeysOlder(c, t) == {k \in DOMAIN c.m : t - c.m[k].timestamp > cacheDuration}

\* The keys cleanup deletes
ExpiredKeys(c, t) == {k \in DOMAIN c.m : ~isValid(c.m[k], t)}

\* The test before saveCache as it would be if cleanup saved in every case
cleanupSavesAlways(removedCount) == TRUE

\* CacheManager.cleanup: if (removedCount > 0), before saveCache
cleanupSaves(removedCount) == removedCount > 0

\* CacheManager.cleanup: the cache after the forEach
cleanupCache(c, t) == Val(c.kind, Restrict(c.m, (DOMAIN c.m) \ ExpiredKeys(c, t)))

\* getStats as it would be if it counted every entry as valid
getStatsAllValid(c, t) ==
    [kind |-> "stats", totalEntries |-> Cardinality(DOMAIN c.m),
     validEntries |-> Cardinality(DOMAIN c.m), expiredEntries |-> 0]

\* CacheManager.getStats
getStats(c, t) ==
    LET keys == DOMAIN c.m
        validEntries == Cardinality({k \in keys : isValid(c.m[k], t)})
    IN  [kind |-> "stats",
         totalEntries |-> Cardinality(keys),
         validEntries |-> validEntries,
         expiredEntries |-> Cardinality(keys) - validEntries]

-----------------------------------------------------------------------------
(* What the calls leave behind for the properties to read *)

None == [op |-> "none"]
NoRet == [kind |-> "none"]
Undefined == [kind |-> "undefined"]

Input(endpoint, params) == [endpoint |-> endpoint, params |-> params]

\* The history of sets: a set on a key supersedes every recorded set on that key
\* (by: the DataService request the set was made for, or Direct)
writtenAfterSet(w, endpoint, params, data, t, disk, by) ==
    LET key == generateKey(endpoint, params)
        keep == {i \in DOMAIN w : generateKey(i.endpoint, i.params) # key}
    IN  Put(Restrict(w, keep), Input(endpoint, params),
            [data |-> data, at |-> t, disk |-> disk, by |-> by])

Direct == [op |-> "direct"]

\* The sets that reached cache.json, after a set: the set supersedes the one
\* recorded for its key; it is recorded when its own write succeeds (earlier:
\* it was made by an earlier process), and a write that fails after it
\* truncated the file leaves none.
storedAfterSet(s, endpoint, params, data, t, disk) ==
    LET key == generateKey(endpoint, params)
        keep == {i \in DOMAIN s : generateKey(i.endpoint, i.params) # key}
    IN  CASE disk = "ok" -> Put(Restrict(s, keep), Input(endpoint, params),
                                [data |-> data, at |-> t, earlier |-> FALSE])
          [] disk = "eopen" -> Restrict(s, keep)
          [] disk = "ewrite" -> EmptyMap

\* The sets that reached cache.json, after a cleanup: those of the deleted keys
\* go, and all of them when the write truncated the file.
storedAfterCleanup(s, c, t, disk) ==
    LET gone == ExpiredKeys(c, t)
    IN  IF gone # {} /\ disk = "ewrite" THEN EmptyMap
        ELSE Restrict(s, {i \in DOMAIN s : generateKey(i.endpoint, i.params) \notin gone})

\* (endpoint, params) pairs handed to get and set directly
EpE == <<"e">>
EpColon == <<"e", ":", "{", "}">>
ParamsAB == Params(<< <<<<"a">>, StrV(<<"x">>)>>, <<<<"b">>, NumV(1)>> >>)
ParamsBA == Params(<< <<<<"b">>, NumV(1)>>, <<<<"a">>, StrV(<<"x">>)>> >>)
ParamsA2 == Params(<< <<<<"a">>, StrV(<<"x">>)>>, <<<<"b">>, NumV(2)>> >>)
ParamsNaN == Params(<< <<<<"a">>, NaNV>> >>)
ParamsNull == Params(<< <<<<"a">>, NullV>> >>)

CoreInputs == {Input(EpE, ParamsAB), Input(EpE, ParamsBA)}

KeyInputs ==
    CoreInputs \cup {Input(EpE, NoParams)} \cup
    {Input(EpE, Params(<<>>)), Input(EpColon, NoParams), Input(EpE, ParamsA2)} \cup
    {Input(EpE, ParamsNaN), Input(EpE, ParamsNull)}

PayloadVersions == {1, 2}

DiskOutcomes == {"ok", "eopen", "ewrite"}

IOError == [kind |-> "IOError"]

\* saveCache as it would be without its try/catch: a failed write throws
saveCacheThrowsOnFailure(disk) == disk # "ok"

\* CacheManager.saveCache catches whatever writeFileSync throws
saveCacheThrows(disk) == FALSE

\* What a method that ends in saveCache() hands its caller
AfterSave(disk) == IF saveCacheThrows(disk) THEN IOError ELSE Undefined

CallIds == {1}

Idle == [pc |-> "idle"]

-----------------------------------------------------------------------------
(* The steps of CacheManager's methods; the DataService steps reuse them *)

\* The model explores at most MaxFailures failing writes
Write(disk) ==
    /\ disk = "ok" \/ fails < MaxFailures
    /\ fails' = IF disk = "ok" THEN fails ELSE fails + 1

\* cacheManager.get(endpoint, params)
GetCall(endpoint, params) ==
    LET key == generateKey(endpoint, params)
    IN  /\ last' = [op |-> "get", endpoint |-> endpoint, params |-> params,
                    result |-> getResult(cache, key, now)]
        /\ cache' = getCache(cache, key, now)
        /\ UNCHANGED <<file, written, fails, stored>>

\* The model explores a set only while the map stays within MaxEntries keys
Room(endpoint, params) ==
    \/ HasEntry(cache, generateKey(endpoint, params))
    \/ Cardinality(DOMAIN cache.m) < MaxEntries

\* cacheManager.set(endpoint, data, params)
SetCall(endpoint, data, params, disk, by) ==
    LET key == generateKey(endpoint, params)
    IN  IF setThrows(cache)
        THEN /\ disk = "ok"
             /\ last' = [op |-> "set", endpoint |-> endpoint, params |-> params,
                         data |-> data, disk |-> disk, result |-> TypeError]
             /\ UNCHANGED <<cache, file, written, fails, stored>>
        ELSE /\ Write(disk)
             /\ cache' = setCache(cache, key, data, now)
             /\ file' = saveCache(cache', file, disk)
             /\ written' = writtenAfterSet(written, endpoint, params, data, now, disk, by)
             /\ stored' = storedAfterSet(stored, endpoint, params, data, now, disk)
             /\ last' = [op |-> "set", endpoint |-> endpoint, params |-> params,
                         data |-> data, disk |-> disk, result |-> AfterSave(disk)]

InitWith(f) ==
    /\ now = 0
    /\ file = f
    /\ cache = loadCache(file)
    /\ calls = [c \in CallIds |-> Idle]
    /\ last = None
    /\ ret = NoRet
    /\ written = EmptyMap
    /\ fails = 0
    /\ stored = EmptyMap

\* The first run of the program: there is no cache.json yet
Init == InitWith(FileAbsent)

\* Time passes
Tick ==
    /\ now + TickStep <= MaxTicks * TickStep
    /\ now' = now + TickStep
    /\ last' = None
    /\ ret' = NoRet
    /\ UNCHANGED <<cache, file, calls, written, fails, stored>>

\* CacheManager.get
Get(i) ==
    /\ GetCall(i.endpoint, i.params)
    /\ ret' = NoRet
    /\ UNCHANGED <<now, calls>>

\* CacheManager.set, called with version v of the payload meant for i
Set(i, v, disk) ==
    /\ Room(i.endpoint, i.params)
    /\ SetCall(i.endpoint, Payload(i, v), i.params, disk, Direct)
    /\ ret' = NoRet
    /\ UNCHANGED <<now, calls>>

\* CacheManager.clear (DataService.clearCache)
Clear(disk) ==
    /\ Write(disk)
    /\ cache' = clearCache(cache)
    /\ file' = saveCache(cache', file, disk)
    /\ written' = EmptyMap
    /\ stored' = EmptyMap
    /\ last' = [op |-> "clear", disk |-> disk, result |-> AfterSave(disk)]
    /\ ret' = NoRet
    /\ UNCHANGED <<now, calls>>

\* CacheManager.cleanup
Cleanup(disk) ==
    /\ IF keysThrows(cache)
       THEN /\ disk = "ok"
            /\ last' = [op |-> "cleanup", removed |-> 0, disk |-> disk, saved |-> FALSE,
                        result |-> TypeError]
            /\ UNCHANGED <<cache, file, fails, stored>>
       ELSE LET removedCount == Cardinality(ExpiredKeys(cache, now))
                saves == cleanupSaves(removedCount)
            IN  /\ cache' = cleanupCache(cache, now)
                /\ stored' = storedAfterCleanup(stored, cache, now, disk)
                /\ IF saves
                   THEN /\ Write(disk)
                        /\ file' = saveCache(cache', file, disk)
                   ELSE /\ disk = "ok"
                        /\ UNCHANGED <<file, fails>>
                /\ last' = [op |-> "cleanup", removed |-> removedCount,
                            disk |-> disk, saved |-> saves,
                            result |-> IF saves THEN AfterSave(disk) ELSE Undefined]
    /\ ret' = NoRet
    /\ UNCHANGED <<now, calls, written>>

\* CacheManager.getStats (DataService.getCacheStats)
GetStats ==
    /\ last' = [op |-> "getStats",
                result |-> IF keysThrows(cache) THEN TypeError
                           ELSE getStats(cache, now)]
    /\ ret' = NoRet
    /\ UNCHANGED <<now, cache, file, calls, written, fails, stored>>

\* A new process: the constructor loads cache.json
Restart ==
    /\ cache' = loadCache(file)
    /\ calls' = [c \in CallIds |-> Idle]
    /\ last' = None
    /\ ret' = NoRet
    /\ written' = EmptyMap
    /\ stored' = [i \in DOMAIN stored |-> [stored[i] EXCEPT !.earlier = TRUE]]
    /\ UNCHANGED <<now, file, fails>>

Next ==
    \/ Tick
    \/ \E i \in CoreInputs : Get(i)
    \/ \E i \in CoreInputs, v \in PayloadVersions, disk \in DiskOutcomes :
          Set(i, v, disk)
    \/ \E disk \in DiskOutcomes : Clear(disk)
    \/ \E disk \in DiskOutcomes : Cleanup(disk)
    \/ GetStats
    \/ Restart

\* The cache store driven through its own methods
Spec == Init /\ [][Next]_vars

-----------------------------------------------------------------------------
(* GitHubAPIClient *)

\* An error message: its fixed text and the values interpolated into it
Msg(text, args) == [text |-> text, args |-> args]

Absent == [some |-> FALSE]
Some(x) == [some |-> TRUE, x |-> x]

\* What axios hands back for a request: a 2xx response with its decoded body,
\* or a rejection with an error code, the text of its message and, when the
\* server answered, the response (status and body).
Response(status, body) == [kind |-> "response", status |-> status, body |-> body]
Rejection(code, response) ==
    [kind |-> "error", code |-> code, message |-> "axios message", response |-> response]

\* Decoded response bodies: the kind of JSON value, the names of its members
\* when it is an object, whether its `items` member is an array, the request
\* and version that identify the content, and the members whose value is null
\* (none unless said otherwise).
Body(kind, fields, itemsIsArray, of, v) ==
    [kind |-> kind, fields |-> fields, itemsIsArray |-> itemsIsArray, of |-> of, v |-> v,
     nulls |-> {}]

\* The value of body.items
Items(body) == [kind |-> "array", part |-> "items", of |-> body.of, v |-> body.v]

Throw(e) == [ok |-> FALSE, error |-> e]
Return(x) == [ok |-> TRUE, data |-> x]

\* handleError as it would be if it looked at the response before the error
\* code: a failure that carries a response is classified by its status
handleErrorStatusFirst(error) ==
    IF error.response.some
    THEN [message |-> Msg("HTTP Error %: %", <<error.response.x.status, error.message>>),
          statusCode |-> Some(error.response.x.status),
          response |-> Some(error.response.x.body)]
    ELSE IF error.code = "ECONNABORTED"
    THEN [message |-> Msg("Request timeout: The request took longer than %ms", <<timeout>>),
          statusCode |-> Absent, response |-> Absent]
    ELSE [message |-> Msg("Network error: %", <<error.message>>),
          statusCode |-> Absent, response |-> Absent]

\* handleError as it would be without the cases 502 and 503 and without
\* attaching the body of the response
handleErrorBare(error) ==
    IF error.code = "ECONNABORTED"
    THEN [message |-> Msg("Request timeout: The request took longer than %ms", <<timeout>>),
          statusCode |-> Absent, response |-> Absent]
    ELSE IF error.code \in {"ENOTFOUND", "EAI_AGAIN"}
    THEN [message |-> Msg("Network error: Unable to connect to GitHub API. Please check your internet connection.", <<>>),
          statusCode |-> Absent, response |-> Absent]
    ELSE IF ~error.response.some
    THEN [message |-> Msg("Network error: %", <<error.message>>),
          statusCode |-> Absent, response |-> Absent]
    ELSE LET statusCode == error.response.x.status
             message ==
                CASE statusCode = 400 -> Msg("Bad Request: Invalid parameters provided", <<>>)
                  [] statusCode = 401 -> Msg("Unauthorized: Invalid or missing authentication token", <<>>)
                  [] statusCode = 403 -> Msg("Rate limit exceeded: GitHub API rate limit reached. Please try again later.", <<>>)
                  [] statusCode = 404 -> Msg("Not Found: The requested resource does not exist", <<>>)
                  [] statusCode = 422 -> Msg("Validation Failed: The request contains invalid fields", <<>>)
                  [] statusCode = 500 -> Msg("Server Error: GitHub API is currently unavailable", <<>>)
                  [] OTHER -> Msg("HTTP Error %: %", <<statusCode, error.message>>)
         IN  [message |-> message, statusCode |-> Some(statusCode), response |-> Absent]

\* GitHubAPIClient.handleError: the APIError it throws
handleError(error) ==
    IF error.code = "ECONNABORTED"
    THEN [message |-> Msg("Request timeout: The request took longer than %ms", <<timeout>>),
          statusCode |-> Absent, response |-> Absent]
    ELSE IF error.code \in {"ENOTFOUND", "EAI_AGAIN"}
    THEN [message |-> Msg("Network error: Unable to connect to GitHub API. Please check your internet connection.", <<>>),
          statusCode |-> Absent, response |-> Absent]
    ELSE IF ~error.response.some
    THEN [message |-> Msg("Network error: %", <<error.message>>),
          statusCode |-> Absent, response |-> Absent]
    ELSE LET statusCode == error.response.x.status
             message ==
                CASE statusCode = 400 -> Msg("Bad Request: Invalid parameters provided", <<>>)
                  [] statusCode = 401 -> Msg("Unauthorized: Invalid or missing authentication token", <<>>)
                  [] statusCode = 403 -> Msg("Rate limit exceeded: GitHub API rate limit reached. Please try again later.", <<>>)
                  [] statusCode = 404 -> Msg("Not Found: The requested resource does not exist", <<>>)
                  [] statusCode = 422 -> Msg("Validation Failed: The request contains invalid fields", <<>>)
                  [] statusCode \in {500, 502, 503} -> Msg("Server Error: GitHub API is currently unavailable", <<>>)
                  [] OTHER -> Msg("HTTP Error %: %", <<statusCode, error.message>>)
         IN  [message |-> message, statusCode |-> Some(statusCode),
              response |-> Some(error.response.x.body)]

\* The first required field, in list order, that is no member of data
RECURSIVE FirstMissing(_, _)
FirstMissing(data, requiredFields) ==
    IF requiredFields = <<>> THEN Absent
    ELSE IF Head(requiredFields) \notin data.fields THEN Some(Head(requiredFields))
    ELSE FirstMissing(data, Tail(requiredFields))

ValidationError(message) == [message |-> message, statusCode |-> Absent, response |-> Absent]

\* validateResponse as it would be if it asked for a value in each required
\* field: a field holding null counts as missing
validateResponseNotNull(data, requiredFields) ==
    IF data.kind \notin {"object", "array"}
    THEN Throw(ValidationError(
            Msg("Invalid response: Expected object but received invalid data", <<>>)))
    ELSE LET missing == FirstMissing([data EXCEPT !.fields = data.fields \ data.nulls],
                                     requiredFields)
         IN  IF missing.some
             THEN Throw(ValidationError(
                     Msg("Invalid response: Missing required field '%'", <<missing.x>>)))
             ELSE Return(data)

\* GitHubAPIClient.validateResponse: !data holds of null, typeof data is
\* 'object' for objects and arrays alike
validateResponse(data, requiredFields) ==
    IF data.kind \notin {"object", "array"}
    THEN Throw(ValidationError(
            Msg("Invalid response: Expected object but received invalid data", <<>>)))
    ELSE LET missing == FirstMissing(data, requiredFields)
         IN  IF missing.some
             THEN Throw(ValidationError(
                     Msg("Invalid response: Missing required field '%'", <<missing.x>>)))
             ELSE Return(data)

\* Requests of the DataService and of the GitHubAPIClient, by operation
SearchReq(query, sort, perPage) ==
    [op |-> "searchRepositories", query |-> query, sort |-> sort, perPage |-> perPage]
RepoReq(owner, repo) == [op |-> "getRepository", owner |-> owner, repo |-> repo]
UserReq(username) == [op |-> "getUser", username |-> username]
UserReposReq(username, sort, perPage) ==
    [op |-> "getUserRepositories", username |-> username, sort |-> sort,
     perPage |-> perPage]

S_search_repositories == <<"s", "e", "a", "r", "c", "h", "/", "r", "e", "p", "o", "s", "i", "t", "o", "r", "i", "e", "s">>
S_slash_search_repositories == <<"/">> \o S_search_repositories
S_repos_slash == <<"r", "e", "p", "o", "s", "/">>
S_users_slash == <<"u", "s", "e", "r", "s", "/">>
S_slash_repos == <<"/", "r", "e", "p", "o", "s">>
S_slash == <<"/">>
S_q == <<"q">>
S_sort == <<"s", "o", "r", "t">>
S_order == <<"o", "r", "d", "e", "r">>
S_desc == <<"d", "e", "s", "c">>
S_per_page == <<"p", "e", "r", "_", "p", "a", "g", "e">>
S_stars == <<"s", "t", "a", "r", "s">>
S_updated == <<"u", "p", "d", "a", "t", "e", "d">>

\* The URL and the query parameters the GitHubAPIClient operation sends
ApiUrl(req) ==
    CASE req.op = "searchRepositories" ->
            [path |-> S_slash_search_repositories,
             params |-> Params(<< <<S_q, StrV(req.query)>>, <<S_sort, StrV(req.sort)>>,
                                  <<S_order, StrV(S_desc)>>, <<S_per_page, req.perPage>> >>)]
      [] req.op = "getRepository" ->
            [path |-> <<"/">> \o S_repos_slash \o req.owner \o S_slash \o req.repo,
             params |-> NoParams]
      [] req.op = "getUser" ->
            [path |-> <<"/">> \o S_users_slash \o req.username, params |-> NoParams]
      [] req.op = "getUserRepositories" ->
            [path |-> <<"/">> \o S_users_slash \o req.username \o S_slash_repos,
             params |-> Params(<< <<S_sort, StrV(req.sort)>>, <<S_per_page, req.perPage>> >>)]

\* The try blocks as they would be without validation: whatever a response
\* carries is returned
tryBlockUnchecked(req, transport) ==
    IF transport.kind = "error" THEN Throw(handleError(transport))
    ELSE IF req.op = "searchRepositories" THEN Return(Items(transport.body))
    ELSE Return(transport.body)

\* The try blocks of the four operations of GitHubAPIClient, given what axios
\* hands back: a rejection goes through the response interceptor (handleError),
\* which throws; a response is validated.
tryBlock(req, transport) ==
    IF transport.kind = "error" THEN Throw(handleError(transport))
    ELSE LET data == transport.body
         IN  CASE req.op = "searchRepositories" ->
                    LET validated == validateResponse(data, <<"items", "total_count">>)
                    IN  IF ~validated.ok THEN validated
                        ELSE IF ~validated.data.itemsIsArray
                        THEN Throw(ValidationError(
                                Msg("Invalid response: items field is not an array", <<>>)))
                        ELSE Return(Items(validated.data))
               [] req.op = "getRepository" ->
                    validateResponse(data, <<"id", "name", "full_name", "owner">>)
               [] req.op = "getUser" ->
                    validateResponse(data, <<"login", "id", "html_url">>)
               [] req.op = "getUserRepositories" ->
                    IF data.kind # "array"
                    THEN Throw(ValidationError(
                            Msg("Invalid response: Expected array of repositories", <<>>)))
                    ELSE Return(data)

\* The catch blocks as they would be if they swallowed what they caught: the
\* operation returns undefined
catchBlockSwallow(error) == Return([kind |-> "undefined"])

\* The catch blocks of the four operations: each rethrows what it caught
catchBlock(error) == Throw(error)

\* The four operations of GitHubAPIClient: one request, its outcome through the
\* try block, whatever that throws through the catch block
ApiResult(req, transport) ==
    LET tried == tryBlock(req, transport)
    IN  IF tried.ok THEN tried ELSE catchBlock(tried.error)

\* The body GitHub sends for a request when all is well
GoodBody(req, v) ==
    CASE req.op = "searchRepositories" ->
            Body("object", {"total_count", "incomplete_results", "items"}, TRUE, ApiUrl(req), v)
      [] req.op = "getRepository" ->
            Body("object", {"id", "name", "full_name", "owner", "language"}, FALSE, ApiUrl(req), v)
      [] req.op = "getUser" ->
            Body("object", {"login", "id", "html_url", "name"}, FALSE, ApiUrl(req), v)
      [] req.op = "getUserRepositories" ->
            Body("array", {}, FALSE, ApiUrl(req), v)

\* A successful answer, with version v of the content
GoodTransport(req, v) == Response(200, GoodBody(req, v))

\* Answers and rejections that make the operation fail: a timeout, a 404, and
\* a 200 whose body is null
BadKinds == {"timeout", "http", "shape"}

BadTransport(req, k) ==
    CASE k = "timeout" -> Rejection("ECONNABORTED", Absent)
      [] k = "http" ->
            Rejection("ERR_BAD_REQUEST",
                      Some([status |-> 404,
                            body |-> Body("object", {"message"}, FALSE, ApiUrl(req), 0)]))
      [] k = "shape" -> Response(200, Body("null", {}, FALSE, ApiUrl(req), 0))

\* Rejections axios may hand to the interceptor: the error code (none: the
\* error has no code) and the status of the response it carries (0: it carries
\* no response)
ErrorCodes == {"none", "ECONNABORTED", "ENOTFOUND", "EAI_AGAIN", "ERR_NETWORK", "ERR_BAD_REQUEST"}
Statuses == {0, 400, 401, 403, 404, 418, 422, 500, 502, 503}
Failures == [code : ErrorCodes, status : Statuses]

FailureTransport(req, f) ==
    Rejection(f.code,
              IF f.status = 0 THEN Absent
              ELSE Some([status |-> f.status,
                         body |-> Body("object", {"message"}, FALSE, ApiUrl(req), 0)]))

\* An operation of the API client is called: it issues its request
ApiSend(c, req) ==
    /\ calls[c].pc = "idle"
    /\ calls' = [calls EXCEPT ![c] = [pc |-> "sent", req |-> req, requests |-> 1]]
    /\ ret' = NoRet
    /\ last' = None
    /\ UNCHANGED <<now, cache, file, written, fails, stored>>

\* The request is rejected: the operation ends with what ApiResult gives
ApiRejected(c, f) ==
    /\ calls[c].pc = "sent"
    /\ LET req == calls[c].req
           transport == FailureTransport(req, f)
       IN  ret' = [kind |-> "api", req |-> req, transport |-> transport,
                   result |-> ApiResult(req, transport),
                   requests |-> calls[c].requests]
    /\ calls' = [calls EXCEPT ![c] = Idle]
    /\ last' = None
    /\ UNCHANGED <<now, cache, file, written, fails, stored>>

\* Bodies a 200 response may carry: null, a string, an array, or an object with
\* any of the fields the operations require, `items` being an array or not,
\* and the fields holding values or all holding null
FieldNames ==
    {"items", "total_count", "id", "name", "full_name", "owner", "login", "html_url"}

Shapes ==
    [kind : {"null", "string", "array"}, fields : {{}}, itemsIsArray : {FALSE},
     allNull : {FALSE}]
    \cup [kind : {"object"}, fields : SUBSET FieldNames, itemsIsArray : BOOLEAN,
          allNull : BOOLEAN]

ShapeBody(req, sh) ==
    [Body(sh.kind, sh.fields,
          sh.itemsIsArray /\ "items" \in sh.fields /\ ~sh.allNull, ApiUrl(req), 1)
     EXCEPT !.nulls = IF sh.allNull THEN sh.fields ELSE {}]

\* The request is answered with status 200
ApiAnswered(c, sh) ==
    /\ calls[c].pc = "sent"
    /\ LET req == calls[c].req
           transport == Response(200, ShapeBody(req, sh))
       IN  ret' = [kind |-> "api", req |-> req, transport |-> transport,
                   result |-> ApiResult(req, transport),
                   requests |-> calls[c].requests]
    /\ calls' = [calls EXCEPT ![c] = Idle]
    /\ last' = None
    /\ UNCHANGED <<now, cache, file, written, fails, stored>>

-----------------------------------------------------------------------------
(* DataService *)

\* The cacheKey of each read operation
DSEndpoint(req) ==
    CASE req.op = "searchRepositories" -> S_search_repositories
      [] req.op = "getRepository" -> S_repos_slash \o req.owner \o S_slash \o req.repo
      [] req.op = "getUser" -> S_users_slash \o req.username
      [] req.op = "getUserRepositories" -> S_users_slash \o req.username \o S_slash_repos

\* The params object of each read operation, in the order it is written
DSParams(req) ==
    CASE req.op = "searchRepositories" ->
            Params(<< <<S_q, StrV(req.query)>>, <<S_sort, StrV(req.sort)>>,
                      <<S_per_page, req.perPage>> >>)
      [] req.op = "getRepository" -> NoParams
      [] req.op = "getUser" -> NoParams
      [] req.op = "getUserRepositories" ->
            Params(<< <<S_sort, StrV(req.sort)>>, <<S_per_page, req.perPage>> >>)

\* The key the cache manager derives for a request
DSKey(req) == generateKey(DSEndpoint(req), DSParams(req))

\* The hit test as it would be if the cached value were never taken
DSHitNever(cached) == FALSE

\* if (cached)
DSHit(cached) == cached # Null

\* The propagation as it would be if a catch wrapped the error in a new one
DSPropagateWrapped(e) ==
    [message |-> Msg("Failed to fetch: %", <<e.message.text>>),
     statusCode |-> Absent, response |-> Absent]

\* An error thrown under `await` leaves the operation as it is: there is no catch
DSPropagate(e) == e

\* return data, after cacheManager.set
DSReturn(data, c, key, t) == data

\* The first part of a read operation, up to the await: the cache lookup, then
\* either the return of the cached value or the request to the API client
DSBegin(c, req) ==
    LET key == DSKey(req)
        cached == getResult(cache, key, now)
    IN  /\ calls[c].pc = "idle"
        /\ GetCall(DSEndpoint(req), DSParams(req))
        /\ IF cached = TypeError
           THEN /\ ret' = [kind |-> "threw", req |-> req, key |-> key,
                           error |-> TypeError, thrown |-> TypeError,
                           apiCalls |-> 0, sets |-> 0]
                /\ UNCHANGED calls
           ELSE IF DSHit(cached)
           THEN /\ ret' = [kind |-> "returned", req |-> req, key |-> key,
                           via |-> "hit", value |-> cached, apiCalls |-> 0, sets |-> 0]
                /\ UNCHANGED calls
           ELSE /\ calls' = [calls EXCEPT ![c] =
                                [pc |-> "awaiting", req |-> req, apiCalls |-> 1]]
                /\ ret' = NoRet
        /\ UNCHANGED now

\* The API client's promise resolves: set, then return
DSApiSuccess(c, v, disk) ==
    /\ calls[c].pc = "awaiting"
    /\ LET req == calls[c].req
           key == DSKey(req)
           result == ApiResult(req, GoodTransport(req, v))
       IN
        /\ result.ok
        /\ Room(DSEndpoint(req), DSParams(req))
        /\ SetCall(DSEndpoint(req), result.data, DSParams(req), disk, req)
        /\ ret' = IF setThrows(cache) \/ saveCacheThrows(disk)
                  THEN [kind |-> "threw", req |-> req, key |-> key,
                        error |-> last'.result, thrown |-> last'.result,
                        apiCalls |-> calls[c].apiCalls, sets |-> 1]
                  ELSE [kind |-> "returned", req |-> req, key |-> key, via |-> "miss",
                        value |-> DSReturn(result.data, cache', key, now),
                        fetched |-> result.data, disk |-> disk,
                        apiCalls |-> calls[c].apiCalls, sets |-> 1,
                        replaced |-> IF HasEntry(cache, key) THEN Some(cache.m[key])
                                     ELSE Absent]
        /\ calls' = [calls EXCEPT ![c] = Idle]
        /\ UNCHANGED now

\* The API client's promise rejects: the operation throws
DSApiFailure(c, k) ==
    /\ calls[c].pc = "awaiting"
    /\ LET req == calls[c].req
           result == ApiResult(req, BadTransport(req, k))
       IN
        /\ ~result.ok
        /\ ret' = [kind |-> "threw", req |-> req, key |-> DSKey(req),
                   error |-> DSPropagate(result.error), thrown |-> result.error,
                   apiCalls |-> calls[c].apiCalls, sets |-> 0]
        /\ calls' = [calls EXCEPT ![c] = Idle]
        /\ last' = None
        /\ UNCHANGED <<now, cache, file, written, fails, stored>>

\* The API client's promise settles on a 200 response with a body of shape sh:
\* set and return if the API client returned, throw if it threw
DSApiAnswer(c, sh) ==
    /\ calls[c].pc = "awaiting"
    /\ LET req == calls[c].req
           key == DSKey(req)
           body == ShapeBody(req, sh)
           result == ApiResult(req, Response(200, body))
       IN  IF result.ok
           THEN /\ Room(DSEndpoint(req), DSParams(req))
                /\ SetCall(DSEndpoint(req), result.data, DSParams(req), "ok", req)
                /\ ret' = IF setThrows(cache)
                          THEN [kind |-> "threw", req |-> req, key |-> key,
                                error |-> last'.result, thrown |-> last'.result,
                                apiCalls |-> calls[c].apiCalls, sets |-> 1, body |-> body]
                          ELSE [kind |-> "returned", req |-> req, key |-> key,
                                via |-> "miss",
                                value |-> DSReturn(result.data, cache', key, now),
                                fetched |-> result.data, disk |-> "ok",
                                apiCalls |-> calls[c].apiCalls, sets |-> 1, body |-> body]
           ELSE /\ ret' = [kind |-> "threw", req |-> req, key |-> key,
                           error |-> DSPropagate(result.error), thrown |-> result.error,
                           apiCalls |-> calls[c].apiCalls, sets |-> 0, body |-> body]
                /\ last' = None
                /\ UNCHANGED <<cache, file, written, fails, stored>>
    /\ calls' = [calls EXCEPT ![c] = Idle]
    /\ UNCHANGED now

\* One request per read operation
S_a == <<"a">>
S_b == <<"b">>
PerPage == NumV(30)

OpRequests ==
    { SearchReq(S_a, S_stars, PerPage), RepoReq(S_a, S_b), UserReq(S_a),
      UserReposReq(S_a, S_updated, PerPage) }

NextApi ==
    \/ \E c \in CallIds, req \in OpRequests : ApiSend(c, req)
    \/ \E c \in CallIds, f \in Failures : ApiRejected(c, f)
    \/ \E c \in CallIds, sh \in Shapes : ApiAnswered(c, sh)

\* The four operations of the API client, called directly
SpecApi == Init /\ [][NextApi]_vars

NextDS ==
    \/ Tick
    \/ \E c \in CallIds, req \in OpRequests : DSBegin(c, req)
    \/ \E c \in CallIds, v \in PayloadVersions : DSApiSuccess(c, v, "ok")
    \/ \E c \in CallIds, k \in BadKinds : DSApiFailure(c, k)
    \/ Clear("ok")

\* The four read operations of the DataService, with a disk that works
SpecDS == Init /\ [][NextDS]_vars

\* Bodies for the read operations: null, a string, an array, and objects with
\* every field or every field but one, `items` being an array or not
DSShapes ==
    [kind : {"null", "string", "array"}, fields : {{}}, itemsIsArray : {FALSE},
     allNull : {FALSE}]
    \cup [kind : {"object"}, fields : {FieldNames \ {f} : f \in FieldNames} \cup {FieldNames},
          itemsIsArray : BOOLEAN, allNull : {FALSE}]

NextShapes ==
    \/ \E c \in CallIds, req \in OpRequests : DSBegin(c, req)
    \/ \E c \in CallIds, sh \in DSShapes : DSApiAnswer(c, sh)
    \/ Clear("ok")

\* The four read operations of the DataService, answered with any body
SpecShapes == Init /\ [][NextShapes]_vars

\* Two of the read operations, with writes of cache.json that may fail
DiskRequests == {SearchReq(S_a, S_stars, PerPage), UserReq(S_a)}

NextDSDisk ==
    \/ Tick
    \/ \E c \in CallIds, req \in DiskRequests : DSBegin(c, req)
    \/ \E c \in CallIds, v \in PayloadVersions, disk \in DiskOutcomes :
          DSApiSuccess(c, v, disk)
    \/ \E c \in CallIds, k \in BadKinds : DSApiFailure(c, k)
    \/ \E disk \in DiskOutcomes : Clear(disk)

SpecDSDisk == Init /\ [][NextDSDisk]_vars

NextFrame ==
    \/ Tick
    \/ \E i \in CoreInputs : Get(i)
    \/ \E i \in CoreInputs, v \in PayloadVersions, disk \in {"ok", "eopen"} :
          Set(i, v, disk)
    \/ Clear("ok")
    \/ Cleanup("ok")
    \/ GetStats

\* The operations of the cache store in one process; a write of set may fail
\* before the file is opened
SpecFrame == Init /\ [][NextFrame]_vars

\* Two calls of the DataService in one process: the second may begin while
\* the first is suspended at its await
TwoCalls == {1, 2}

InitTwo ==
    /\ now = 0
    /\ file = FileAbsent
    /\ cache = loadCache(file)
    /\ calls = [c \in TwoCalls |-> Idle]
    /\ last = None
    /\ ret = NoRet
    /\ written = EmptyMap
    /\ fails = 0
    /\ stored = EmptyMap

NextTwo ==
    \/ Tick
    \/ \E c \in TwoCalls, req \in DiskRequests : DSBegin(c, req)
    \/ \E c \in TwoCalls, v \in PayloadVersions : DSApiSuccess(c, v, "ok")
    \/ \E c \in TwoCalls : DSApiFailure(c, "timeout")

\* Two calls in flight, with time passing and a disk that works
SpecTwo == InitTwo /\ [][NextTwo]_vars

NextTwoDisk ==
    \/ \E c \in TwoCalls, req \in DiskRequests : DSBegin(c, req)
    \/ \E c \in TwoCalls, v \in PayloadVersions, disk \in DiskOutcomes :
          DSApiSuccess(c, v, disk)
    \/ \E c \in TwoCalls : DSApiFailure(c, "timeout")
    \/ \E disk \in DiskOutcomes : Clear(disk)

\* Two calls in flight and clearCache, with writes of cache.json that may fail
SpecTwoDisk == InitTwo /\ [][NextTwoDisk]_vars

\* Requests and (endpoint, params) pairs that differ in one argument, in the
\* operation, in where a "/" falls, or in which value JSON cannot tell from
\* null; no time passes and the disk works
S_c == <<"c">>
S_a_slash_b == <<"a", "/", "b">>
S_b_slash_c == <<"b", "/", "c">>
S_a_slash_repos == <<"a">> \o S_slash_repos

KeyRequests ==
    { RepoReq(S_a_slash_b, S_c), RepoReq(S_a, S_b_slash_c), RepoReq(S_a, S_b),
      UserReq(S_a), UserReq(S_a_slash_repos),
      UserReposReq(S_a, S_updated, PerPage), UserReposReq(S_a, S_updated, NaNV),
      UserReposReq(S_a, S_updated, InfinityV),
      SearchReq(S_a, S_stars, PerPage), SearchReq(S_b, S_stars, PerPage) }

NextKeys ==
    \/ \E i \in KeyInputs : Get(i)
    \/ \E i \in KeyInputs : Set(i, 1, "ok")
    \/ \E c \in CallIds, req \in KeyRequests : DSBegin(c, req)
    \/ \E c \in CallIds : DSApiSuccess(c, 1, "ok")
    \/ \E c \in CallIds : DSApiFailure(c, "http")

SpecKeys == Init /\ [][NextKeys]_vars

\* Whatever cache.json may hold when the program starts
FileContents ==
    { FileAbsent, FileUnreadable, FileGarbage,
      Val("null", EmptyMap), Val("number", EmptyMap), Val("array", EmptyMap),
      Val("object", EmptyMap),
      Val("object", [k \in {generateKey(EpE, ParamsAB)} |->
                        Entry(Payload(Input(EpE, ParamsAB), 1), 0)]) }

InitLoad == \E f \in FileContents : InitWith(f)

NextLoad ==
    \/ Tick
    \/ \E i \in CoreInputs : Get(i)
    \/ \E i \in CoreInputs, v \in PayloadVersions : Set(i, v, "ok")
    \/ Clear("ok")
    \/ Cleanup("ok")
    \/ GetStats
    \/ Restart

\* The cache store started on an arbitrary cache.json
SpecLoad == InitLoad /\ [][NextLoad]_vars

-----------------------------------------------------------------------------
(* Properties of the cache store *)

\* The key get and set derive for the arguments of the call that just returned
LastKey == generateKey(last.endpoint, last.params)

\* Two parameter objects hold the same (name, value) pairs
SamePairs(p1, p2) ==
    /\ p1.some /\ p2.some
    /\ Len(p1.p) = Len(p2.p)
    /\ {p1.p[k] : k \in 1..Len(p1.p)} = {p2.p[k] : k \in 1..Len(p2.p)}

\* C1: parameter objects with the same (name, value) pairs in a different
\* insertion order derive the same key, so a get within the TTL of a set made
\* with the other order returns the payload of that set.
C1_KeyIgnoresInsertionOrder ==
    last.op = "get" =>
        \A i \in DOMAIN written :
            (/\ i.endpoint = last.endpoint
             /\ SamePairs(i.params, last.params)
             /\ now - written[i].at < cacheDuration)
            => /\ generateKey(i.endpoint, i.params) = LastKey
               /\ last.result = written[i].data

\* C3: get returns the payload of the entry under the derived key exactly when
\* that entry exists and now - timestamp < cacheDuration; otherwise, also at an
\* age equal to the TTL, it returns null.
C3_GetIffFresh ==
    last.op = "get" =>
        IF /\ LastKey \in DOMAIN cache.m
           /\ now - cache.m[LastKey].timestamp < cacheDuration
        THEN last.result = cache.m[LastKey].data /\ last.result.kind = "payload"
        ELSE last.result = Null

\* C3 witness: a get of an entry whose age is exactly the TTL returned null
C3_Witness ==
    /\ last.op = "get"
    /\ LastKey \in DOMAIN cache.m
    /\ now - cache.m[LastKey].timestamp = cacheDuration
    /\ last.result = Null

\* C4: a get within the TTL of the latest set on its key, with no clear since,
\* returns exactly the payload that set was given.
C4_RoundTrip ==
    last.op = "get" =>
        LET i == Input(last.endpoint, last.params)
        IN  (i \in DOMAIN written /\ now - written[i].at < cacheDuration)
            => last.result = written[i].data

\* C4 witness: the payload came back after time had passed and the other key
\* had been set in between
C4_Witness ==
    /\ last.op = "get"
    /\ Cardinality(DOMAIN written) = 2
    /\ LET i == Input(last.endpoint, last.params)
       IN  /\ \A j \in DOMAIN written : j # i => written[j].at > written[i].at
           /\ now - written[i].at < cacheDuration
           /\ now > written[i].at
           /\ last.result = written[i].data

\* C5: a get, whether it hits, misses or finds an expired entry, leaves the
\* map and the file as they were.
C5_GetChangesNothing ==
    [][last'.op = "get" => (cache' = cache /\ file' = file)]_vars

\* C5 witness: get returned null for an expired entry that is still in the map
\* and in the file
C5_Witness ==
    /\ last.op = "get"
    /\ last.result = Null
    /\ LastKey \in DOMAIN cache.m
    /\ ~(now - cache.m[LastKey].timestamp < cacheDuration)
    /\ file.kind = "object"
    /\ LastKey \in DOMAIN file.m

\* The mutating call that just returned wrote cache.json, and the write worked
Persisted ==
    /\ \/ last.op \in {"set", "clear"}
       \/ last.op = "cleanup" /\ last.removed > 0
    /\ last.result = Undefined
    /\ last.disk = "ok"

\* C8: after a set, a clear, or a cleanup that removed something, whose write
\* succeeded, the file holds exactly the in-memory map.
C8_WriteThrough == Persisted => (file.kind = "object" /\ file.m = cache.m)

\* C8 witness: a successful write after a failed one; the file holds both the
\* entry whose own write failed and the new one
C8_Witness ==
    /\ Persisted
    /\ last.op = "set"
    /\ \E i \in DOMAIN written :
          /\ written[i].disk # "ok"
          /\ generateKey(i.endpoint, i.params) # LastKey
          /\ generateKey(i.endpoint, i.params) \in DOMAIN file.m

-----------------------------------------------------------------------------
(* Properties of key derivation *)

\* The (endpoint, params) pair a request's entry is stored under
WrittenFor(req) == Input(DSEndpoint(req), DSParams(req))

Hit == ret.kind = "returned" /\ ret.via = "hit"
Miss == ret.kind = "returned" /\ ret.via = "miss"

\* A get called directly (not by a DataService operation) returned a payload
DirectHit == last.op = "get" /\ ret = NoRet /\ last.result # Null

\* C2: requests that differ in operation or in an argument never share a key,
\* so an operation that hits reads an entry written for the very same request;
\* and (endpoint, params) pairs that differ in endpoint, in a parameter value
\* or in absent versus {} never share a key, so a direct get reads a payload
\* set for its own pair.
C2_NoRequestReadsAnothers ==
    /\ Hit => written[WrittenFor(ret.req)].by = ret.req
    /\ DirectHit => last.result.of = Input(last.endpoint, last.params)

-----------------------------------------------------------------------------
(* Properties of the DataService read operations *)

Fresh(key) == HasEntry(cache, key) /\ now - cache.m[key].timestamp < cacheDuration

\* C6: an operation that hits returns the cached payload with no API call and
\* no set; one that misses calls the API client once and, when that succeeds,
\* sets the fetched payload under the same key and returns it; the API client
\* is called only when there is no fresh entry.
C6_CacheThenFetch ==
    /\ Hit => /\ ret.apiCalls = 0 /\ ret.sets = 0
              /\ last.op = "get"
              /\ LastKey = ret.key
              /\ Fresh(ret.key)
              /\ ret.value = cache.m[ret.key].data
    /\ Miss => /\ ret.apiCalls = 1 /\ ret.sets = 1
               /\ last.op = "set"
               /\ LastKey = ret.key
               /\ last.data = ret.fetched
               /\ ret.fetched.of = ApiUrl(ret.req)
               /\ cache.m[ret.key] = Entry(ret.fetched, now)
               /\ ret.value = ret.fetched
    /\ \A c \in CallIds :
          calls[c].pc = "awaiting" =>
             /\ calls[c].apiCalls = 1
             /\ (last.op = "get" /\ LastKey = DSKey(calls[c].req))
                   => ~Fresh(DSKey(calls[c].req))

\* C6 witness: a hit some time after the entry was written
C6_Witness ==
    /\ Hit
    /\ now > cache.m[ret.key].timestamp

\* C7: when the API client call fails, the operation throws the very error the
\* API client threw, after one API call and no set, and neither the lookup nor
\* the failure changes the map or the file.
C7_FailurePropagates ==
    [][ /\ (ret'.kind = "threw" /\ ret' # ret) =>
              /\ ret'.error = ret'.thrown
              /\ ret'.apiCalls = 1 /\ ret'.sets = 0
              /\ cache' = cache /\ file' = file
        /\ (\E c \in CallIds : calls[c].pc = "idle" /\ calls'[c].pc = "awaiting") =>
              (cache' = cache /\ file' = file) ]_vars

\* C7 witness: an HTTP status error reached the caller while the cache held an
\* entry
C7_Witness ==
    /\ ret.kind = "threw"
    /\ ret.error.statusCode.some
    /\ ret.error = ret.thrown
    /\ DOMAIN cache.m # {}

\* C9: a failed write of cache.json does not abort set nor undo it: set
\* returns normally with the entry in the map, the DataService operation
\* returns the fetched payload, and the entry is served within its TTL.
C9_PersistFailureKeepsEntry ==
    /\ (last.op = "set" /\ last.disk # "ok") =>
          /\ last.result = Undefined
          /\ HasEntry(cache, LastKey)
          /\ cache.m[LastKey] = Entry(last.data, now)
    /\ (Miss /\ ret.disk # "ok") =>
          /\ ret.value = ret.fetched
          /\ cache.m[ret.key] = Entry(ret.fetched, now)
    /\ last.op = "set" /\ last.disk # "ok" => ret.kind = "returned"
    /\ \A i \in DOMAIN written :
          (written[i].disk # "ok" /\ now - written[i].at < cacheDuration) =>
             LET key == generateKey(i.endpoint, i.params)
             IN  /\ HasEntry(cache, key)
                 /\ cache.m[key] = Entry(written[i].data, written[i].at)
                 /\ (Hit /\ ret.key = key) => ret.value = written[i].data

\* C9 witness: a hit, some time later, on an entry whose write had failed and
\* which the file does not hold
C9_Witness ==
    /\ Hit
    /\ written[WrittenFor(ret.req)].disk # "ok"
    /\ now > written[WrittenFor(ret.req)].at
    /\ ~(file.kind = "object" /\ ret.key \in DOMAIN file.m)

-----------------------------------------------------------------------------
(* Properties of loading cache.json *)

\* C10: whatever cache.json holds, no get, set, cleanup or getStats throws, and
\* the store works as one that started empty: a successful write leaves the
\* file equal to the map.
C10_AnyFileLoadsAsCache ==
    /\ last.op # "none" => last.result # TypeError
    /\ Persisted => (file.kind = "object" /\ file.m = cache.m)

-----------------------------------------------------------------------------
(* Properties of the cache store across processes *)

\* C11: an entry whose set was written to cache.json by an earlier process is
\* returned by get in a later process while now - timestamp < cacheDuration,
\* counted from the time of that set, and get returns null once that TTL has
\* elapsed.
C11_SurvivesRestart ==
    last.op = "get" =>
        LET i == Input(last.endpoint, last.params)
        IN  (i \in DOMAIN stored /\ stored[i].earlier) =>
                last.result = IF now - stored[i].at < cacheDuration
                              THEN stored[i].data ELSE Null

\* C11 witness: a process that has set nothing itself gets, some time after
\* the set, the payload an earlier process stored
C11_Witness ==
    /\ last.op = "get"
    /\ written = EmptyMap
    /\ LET i == Input(last.endpoint, last.params)
       IN  /\ i \in DOMAIN stored
           /\ stored[i].earlier
           /\ now > stored[i].at
           /\ last.result = stored[i].data

-----------------------------------------------------------------------------
(* Properties of cleanup, clear and getStats *)

\* What a cleanup step that removes the keys `gone` must do: the other entries
\* stay as they are, and getStats taken just before and just after differ in
\* totalEntries by the number removed, with no expired entry left and the
\* same validEntries.
CleanupRemoves(gone) ==
    LET before == getStats(cache, now)
        after == getStats(cache', now')
    IN  /\ DOMAIN cache'.m = (DOMAIN cache.m) \ gone
        /\ \A k \in DOMAIN cache'.m : cache'.m[k] = cache.m[k]
        /\ last'.removed = Cardinality(gone)
        /\ before.totalEntries - after.totalEntries = Cardinality(gone)
        /\ after.expiredEntries = 0
        /\ after.validEntries = before.validEntries

\* A step that is a call of cleanup that did not throw
CleanupStep == last'.op = "cleanup" /\ last'.result # TypeError

\* C12, as stated: cleanup removes exactly the entries whose age exceeds the
\* TTL (now - timestamp > cacheDuration) and leaves the others untouched, and
\* getStats before and after reflects the removed count.
C12_CleanupRemovesOlderThanTTL ==
    [][CleanupStep =>
          CleanupRemoves({k \in DOMAIN cache.m :
                            now - cache.m[k].timestamp > cacheDuration})]_vars

\* C12, amended: cleanup removes exactly the entries that are not valid, that
\* is those with now - timestamp >= cacheDuration, an age equal to the TTL
\* included; it leaves every valid entry untouched, and getStats before and
\* after differs in totalEntries by the number removed, with expiredEntries 0
\* afterwards and validEntries unchanged.
C12_CleanupRemovesNotValid ==
    [][CleanupStep =>
          CleanupRemoves({k \in DOMAIN cache.m :
                            now - cache.m[k].timestamp >= cacheDuration})]_vars

\* C12 witness: a cleanup removed an entry and kept a valid one
C12_Witness ==
    /\ last.op = "cleanup"
    /\ last.result # TypeError
    /\ last.removed > 0
    /\ \E k \in DOMAIN cache.m : now - cache.m[k].timestamp < cacheDuration

\* getStats of an empty map
NoEntries ==
    [kind |-> "stats", totalEntries |-> 0, validEntries |-> 0, expiredEntries |-> 0]

\* A step that starts a new process on the file as it is
RestartStep == cache' = loadCache(file) /\ last' = None /\ file' = file

\* What holds of the map once clear has returned, and until the next set of
\* that process: getStats reports no entry and every get returns null
ClearedInMemory ==
    /\ last'.op = "clear" => (cache' = EmptyObject /\ getStats(cache', now') = NoEntries)
    /\ (cache = EmptyObject /\ last'.op = "getStats") => last'.result = NoEntries
    /\ (cache = EmptyObject /\ last'.op = "get") => last'.result = Null
    /\ (cache = EmptyObject /\ cache' # EmptyObject) => (last'.op = "set" \/ RestartStep)

\* C13, as stated: after clear, getStats reports 0 total, valid and expired
\* entries, every get returns null until the next set, and cache.json holds
\* the empty map (a process started on it starts empty).
C13_ClearEmptiesMapAndFile ==
    [][ /\ ClearedInMemory
        /\ last'.op = "clear" => loadCache(file') = EmptyObject ]_vars

\* C13, amended: after clear, getStats reports 0 total, valid and expired
\* entries and every get returns null until the next set of that process;
\* cache.json holds the empty map when its write succeeds, and keeps what it
\* held when the write fails before touching the file, so that a later process
\* starts with those entries.
C13_ClearEmptiesMap ==
    [][ /\ ClearedInMemory
        /\ (last'.op = "clear" /\ last'.disk = "ok") => file' = EmptyObject
        /\ (last'.op = "clear" /\ last'.disk = "eopen") => file' = file
        /\ (last'.op = "clear" /\ last'.disk = "ewrite") => loadCache(file') = EmptyObject
      ]_vars

\* C13 witness: clear has emptied a map whose entries are still in cache.json,
\* the write having failed
C13_Witness ==
    /\ last.op = "clear"
    /\ last.disk = "eopen"
    /\ cache = EmptyObject
    /\ file.kind = "object"
    /\ DOMAIN file.m # {}

\* C14: getStats counts at call time: totalEntries is the number of keys of
\* the map, validEntries the number of entries with now - timestamp <
\* cacheDuration at that moment, expiredEntries their difference, and the
\* entries counted as valid are exactly those get returns at that instant.
C14_StatsAreLive ==
    (last.op = "getStats" /\ last.result # TypeError) =>
        LET valid == {k \in DOMAIN cache.m : now - cache.m[k].timestamp < cacheDuration}
        IN  /\ last.result.totalEntries = Cardinality(DOMAIN cache.m)
            /\ last.result.validEntries = Cardinality(valid)
            /\ last.result.expiredEntries =
                  last.result.totalEntries - last.result.validEntries
            /\ \A k \in DOMAIN cache.m :
                  k \in valid <=> getResult(cache, k, now) = cache.m[k].data
            /\ \A k \in DOMAIN cache.m :
                  k \notin valid <=> getResult(cache, k, now) = Null

\* C14 witness: getStats counted one valid and one expired entry
C14_Witness ==
    /\ last.op = "getStats"
    /\ last.result # TypeError
    /\ last.result.totalEntries = 2
    /\ last.result.validEntries = 1
    /\ last.result.expiredEntries = 1

-----------------------------------------------------------------------------
(* DataService.filterRepositories *)

\* String.prototype.toLowerCase, on the letters that occur
LowerChar(ch) ==
    CASE ch = "G" -> "g"
      [] ch = "O" -> "o"
      [] ch = "C" -> "c"
      [] OTHER -> ch

toLowerCase(str) == [n \in DOMAIN str |-> LowerChar(str[n])]

\* A string value; repo.language is one or null
Str(str) == [kind |-> "string", s |-> str]

\* repo.language?.toLowerCase(): undefined when the language is null
LanguageLower(repo) ==
    IF repo.language = Null THEN Undefined ELSE Str(toLowerCase(repo.language.s))

\* The four steps of filterRepositories; a criterion that is left out is
\* Absent, and Array.prototype.filter is SelectSeq: the elements that pass, in
\* order. `if (filters.language)` is false of the empty string as of undefined.
filterLanguage(filtered, filters) ==
    IF filters.language.some /\ filters.language.x # <<>>
    THEN LET eq(repo) == LanguageLower(repo) = Str(toLowerCase(filters.language.x))
         IN  SelectSeq(filtered, eq)
    ELSE filtered

filterMinStars(filtered, filters) ==
    IF filters.minStars.some
    THEN LET ge(repo) == repo.stargazers_count >= filters.minStars.x
         IN  SelectSeq(filtered, ge)
    ELSE filtered

\* The maxStars step as it would be if it stopped at the first element above
\* the bound instead of skipping it
RECURSIVE filterMaxStarsUntil(_, _)
filterMaxStarsUntil(filtered, filters) ==
    IF ~filters.maxStars.some \/ filtered = <<>> THEN filtered
    ELSE IF Head(filtered).stargazers_count > filters.maxStars.x THEN <<>>
    ELSE <<Head(filtered)>> \o filterMaxStarsUntil(Tail(filtered), filters)

filterMaxStars(filtered, filters) ==
    IF filters.maxStars.some
    THEN LET le(repo) == repo.stargazers_count <= filters.maxStars.x
         IN  SelectSeq(filtered, le)
    ELSE filtered

filterArchived(filtered, filters) ==
    IF filters.archived.some
    THEN LET same(repo) == repo.archived = filters.archived.x
         IN  SelectSeq(filtered, same)
    ELSE filtered

\* DataService.filterRepositories: language, minStars, maxStars, archived
filterRepositories(repositories, filters) ==
    filterArchived(filterMaxStars(filterMinStars(filterLanguage(repositories, filters),
                                                 filters), filters), filters)

S_Go == <<"G", "o">>
S_go == <<"g", "o">>
S_GO == <<"G", "O">>
S_C == <<"C">>

\* Repositories: the fields the filters read
Repos ==
    [language : {Null, Str(S_Go)}, stargazers_count : {0, 500},
     archived : BOOLEAN]

Repo(stars) == [language |-> Str(S_Go), stargazers_count |-> stars, archived |-> FALSE]

\* The list with stars 50, 100, 300, 500, 900
StarsList == <<Repo(50), Repo(100), Repo(300), Repo(500), Repo(900)>>

MaxRepos == 2

RepoLists == UNION {[1..n -> Repos] : n \in 0..MaxRepos} \cup {StarsList}

\* FilterOptions: each criterion left out or supplied, the language also as the
\* empty string, the bounds also as 0
Optional(values) == {Absent} \cup {Some(x) : x \in values}

Filters ==
    [language : Optional({<<>>, S_go, S_GO, S_C}), minStars : Optional({0, 100}),
     maxStars : Optional({0, 500}), archived : Optional(BOOLEAN)]

\* filterRepositories has been called with some list and some criteria
InitFilter ==
    /\ now = 0
    /\ file = FileAbsent
    /\ cache = loadCache(file)
    /\ \E repositories \in RepoLists, filters \in Filters :
          calls = [c \in CallIds |->
                      [pc |-> "filtering", repositories |-> repositories,
                       filters |-> filters]]
    /\ last = None
    /\ ret = NoRet
    /\ written = EmptyMap
    /\ fails = 0
    /\ stored = EmptyMap

\* The call returns
FilterReturn(c) ==
    /\ calls[c].pc = "filtering"
    /\ ret' = [kind |-> "filter", repositories |-> calls[c].repositories,
               filters |-> calls[c].filters,
               result |-> filterRepositories(calls[c].repositories, calls[c].filters)]
    /\ calls' = [calls EXCEPT ![c] = Idle]
    /\ last' = None
    /\ UNCHANGED <<now, cache, file, written, fails, stored>>

NextFilter == \E c \in CallIds : FilterReturn(c)

\* filterRepositories applied to every list and every FilterOptions
SpecFilter == InitFilter /\ [][NextFilter]_vars

-----------------------------------------------------------------------------
(* DataService.getRepositoryById *)

\* === on numbers: NaN equals nothing, itself included
StrictEquals(x, y) == x = y /\ x # NaNV

\* Array.prototype.find as it would be if it scanned from the end
RECURSIVE findLast(_, _)
findLast(repositories, id) ==
    IF repositories = <<>> THEN Undefined
    ELSE LET n == Len(repositories)
         IN  IF StrictEquals(repositories[n].id, id) THEN repositories[n]
             ELSE findLast(SubSeq(repositories, 1, n - 1), id)

\* Array.prototype.find with repo => repo.id === id: the first element that
\* passes, undefined when none does
RECURSIVE find(_, _)
find(repositories, id) ==
    IF repositories = <<>> THEN Undefined
    ELSE IF StrictEquals(Head(repositories).id, id) THEN Head(repositories)
    ELSE find(Tail(repositories), id)

getRepositoryById(repositories, id) == find(repositories, id)

\* Repositories with an id and a name, lists of them in which an id may occur
\* twice, and the ids asked for: parseInt gives NaN for an argument that is
\* no number
IdRepos == [id : {NumV(1), NumV(2)}, name : {S_a, S_b}]
IdLists == UNION {[1..n -> IdRepos] : n \in 0..MaxRepos}
Ids == {NumV(1), NumV(2), NumV(3), NaNV}

\* getRepositoryById has been called with some list and some id
InitFind ==
    /\ now = 0
    /\ file = FileAbsent
    /\ cache = loadCache(file)
    /\ \E repositories \in IdLists, id \in Ids :
          calls = [c \in CallIds |->
                      [pc |-> "finding", repositories |-> repositories, id |-> id]]
    /\ last = None
    /\ ret = NoRet
    /\ written = EmptyMap
    /\ fails = 0
    /\ stored = EmptyMap

\* The call returns; the list is the caller's and stays as it was
FindReturn(c) ==
    /\ calls[c].pc = "finding"
    /\ ret' = [kind |-> "find", repositories |-> calls[c].repositories,
               id |-> calls[c].id,
               result |-> getRepositoryById(calls[c].repositories, calls[c].id)]
    /\ calls' = [calls EXCEPT ![c] = Idle]
    /\ last' = None
    /\ UNCHANGED <<now, cache, file, written, fails, stored>>

NextFind == \E c \in CallIds : FindReturn(c)

\* getRepositoryById applied to every list and every id
SpecFind == InitFind /\ [][NextFind]_vars

-----------------------------------------------------------------------------
(* Properties of the API client *)

\* An operation of the API client has ended on a rejected request
Rejected == ret.kind = "api" /\ ret.transport.kind = "error"

\* The rule of handleError a rejection falls under, earlier rules first
Rule(error) ==
    IF error.code = "ECONNABORTED" THEN 1
    ELSE IF error.code \in {"ENOTFOUND", "EAI_AGAIN"} THEN 2
    ELSE IF ~error.response.some THEN 3
    ELSE 4

\* C15: the rules apply in order, first match wins: a timeout code gives the
\* timeout message naming the 10000 ms timeout, a name-resolution code the
\* unable-to-connect message, no response the network-error message with the
\* underlying message, and only then the status switch; the errors of the
\* first three rules carry no statusCode and no body.
C15_FirstRuleWins ==
    Rejected =>
        LET error == ret.transport
            e == ret.result.error
        IN  /\ ~ret.result.ok
            /\ Rule(error) = 1 =>
                  e.message = Msg("Request timeout: The request took longer than %ms",
                                  <<10000>>)
            /\ Rule(error) = 2 =>
                  e.message = Msg("Network error: Unable to connect to GitHub API. Please check your internet connection.", <<>>)
            /\ Rule(error) = 3 => e.message = Msg("Network error: %", <<error.message>>)
            /\ Rule(error) \in {1, 2, 3} <=> (~e.statusCode.some /\ ~e.response.some)
            /\ Rule(error) = 4 <=> e.statusCode.some

\* C15 witness: a timeout whose error carries a 404 response was reported as a
\* timeout, without status code
C15_Witness ==
    /\ Rejected
    /\ ret.transport.code = "ECONNABORTED"
    /\ ret.transport.response.some
    /\ ret.transport.response.x.status = 404
    /\ ret.result.error.message.text = "Request timeout: The request took longer than %ms"
    /\ ~ret.result.error.statusCode.some

\* The text the status switch chooses for a status code
StatusText(statusCode) ==
    CASE statusCode = 400 -> "Bad Request: Invalid parameters provided"
      [] statusCode = 401 -> "Unauthorized: Invalid or missing authentication token"
      [] statusCode = 403 -> "Rate limit exceeded: GitHub API rate limit reached. Please try again later."
      [] statusCode = 404 -> "Not Found: The requested resource does not exist"
      [] statusCode = 422 -> "Validation Failed: The request contains invalid fields"
      [] statusCode \in {500, 502, 503} -> "Server Error: GitHub API is currently unavailable"
      [] OTHER -> "HTTP Error %: %"

\* C16: a failure that carries a response and matches no transport rule gives
\* an error whose statusCode is the status of the response, whose response is
\* the raw body, and whose message the status selects: 400, 401, 403, 404, 422
\* each their own, 500, 502 and 503 the same server message, any other code
\* the generic HTTP Error message with the code.
C16_StatusSelectsMessage ==
    (Rejected /\ Rule(ret.transport) = 4) =>
        LET response == ret.transport.response.x
            e == ret.result.error
        IN  /\ ~ret.result.ok
            /\ e.statusCode = Some(response.status)
            /\ e.response = Some(response.body)
            /\ e.message.text = StatusText(response.status)
            /\ response.status \notin {400, 401, 403, 404, 422, 500, 502, 503} =>
                  e.message.args = <<response.status, ret.transport.message>>

\* C16 witness: a rejection carrying a 503 response, and no transport code that
\* an earlier rule takes, has been normalised with its status and body
C16_Witness ==
    /\ Rejected
    /\ Rule(ret.transport) = 4
    /\ ret.transport.response.x.status = 503
    /\ ret.result.error.statusCode = Some(ret.transport.response.x.status)
    /\ ret.result.error.response.some

\* C17: a failed call of the API client ends with one error thrown to the
\* caller, never with a payload or a silent return, and after exactly one
\* request: a rejected request is not sent again.
C17_OneErrorOneRequest ==
    /\ Rejected =>
          /\ ~ret.result.ok
          /\ ret.result.error = handleError(ret.transport)
          /\ ret.requests = 1
    /\ (ret.kind = "api" /\ ~ret.result.ok) => ret.requests = 1
    /\ \A c \in CallIds : calls[c].pc = "sent" => calls[c].requests = 1

\* C17 witness: a request was rejected without a response and the call ended
\* in the network error, one request having been issued
C17_Witness ==
    /\ Rejected
    /\ Rule(ret.transport) = 3
    /\ ~ret.result.ok
    /\ ret.result.error.message.text = "Network error: %"
    /\ ret.requests = 1

\* An operation of the API client has ended on a response with status 200
Answered == ret.kind = "api" /\ ret.transport.kind = "response"

\* The fields each operation hands to the validator (none: it does not call it)
Required(op) ==
    CASE op = "searchRepositories" -> <<"items", "total_count">>
      [] op = "getRepository" -> <<"id", "name", "full_name", "owner">>
      [] op = "getUser" -> <<"login", "id", "html_url">>
      [] op = "getUserRepositories" -> <<>>

\* The payload is an object (arrays included) with every one of the fields
IsValid(data, required) ==
    /\ data.kind \in {"object", "array"}
    /\ \A n \in DOMAIN required : required[n] \in data.fields

\* C18: the validator lets a payload through exactly if it is a non-null
\* object having every required field as a key, whatever the values, null
\* included; when a field is missing the error names the first missing one in
\* the order of the list; a validation error has no statusCode and no body
\* attached, and its message is none of the status switch.
C18_ValidatorAcceptsIffFieldsPresent ==
    (Answered /\ ret.req.op # "getUserRepositories") =>
        LET data == ret.transport.body
            required == Required(ret.req.op)
            r == ret.result
        IN  /\ r.ok => IsValid(data, required)
            /\ (IsValid(data, required) /\ ret.req.op # "searchRepositories") => r.ok
            /\ (IsValid(data, required) /\ ~r.ok) =>
                  r.error.message.text = "Invalid response: items field is not an array"
            /\ ~IsValid(data, required) =>
                  /\ ~r.ok
                  /\ IF data.kind \notin {"object", "array"}
                     THEN r.error.message =
                            Msg("Invalid response: Expected object but received invalid data", <<>>)
                     ELSE \E n \in DOMAIN required :
                            /\ required[n] \notin data.fields
                            /\ \A m \in 1..(n - 1) : required[m] \in data.fields
                            /\ r.error.message =
                                 Msg("Invalid response: Missing required field '%'",
                                     <<required[n]>>)
            /\ ~r.ok => (~r.error.statusCode.some /\ ~r.error.response.some)

\* C18 witness: a getRepository payload whose four fields all hold null was
\* let through
C18_Witness ==
    /\ Answered
    /\ ret.req.op = "getRepository"
    /\ ret.transport.body.nulls = {"id", "name", "full_name", "owner"}
    /\ ret.result.ok

\* A getRepository payload lacking both name and owner was refused for name
C18_FirstMissingReached ==
    /\ Answered
    /\ ret.req.op = "getRepository"
    /\ ret.transport.body.fields = {"id", "full_name"}
    /\ ~ret.result.ok
    /\ ret.result.error.message.args = <<"name">>

-----------------------------------------------------------------------------
(* Properties of the DataService over the API client's validation *)

\* The payload each operation accepts
Accepted(op, data) ==
    CASE op = "searchRepositories" ->
            /\ data.kind = "object"
            /\ {"items", "total_count"} \subseteq data.fields
            /\ data.itemsIsArray
      [] op = "getRepository" ->
            data.kind = "object" /\ {"id", "name", "full_name", "owner"} \subseteq data.fields
      [] op = "getUser" ->
            data.kind = "object" /\ {"login", "id", "html_url"} \subseteq data.fields
      [] op = "getUserRepositories" -> data.kind = "array"

\* A read operation of the DataService ends on a 200 response in this step
AnswerStep ==
    /\ \E c \in CallIds : calls[c].pc = "awaiting" /\ calls'[c].pc = "idle"
    /\ "body" \in DOMAIN ret'

\* C19: a read operation returns and caches what a 200 response carries only
\* when the payload is what its endpoint accepts: items (an array) and
\* total_count for the search, id, name, full_name and owner for a repository,
\* login, id and html_url for a user, a top-level array for the listing. On
\* any other payload it throws a validation error and neither the cache nor
\* its file changes.
C19_OnlyAcceptedPayloadsAreCached ==
    [][AnswerStep =>
        IF Accepted(ret'.req.op, ret'.body)
        THEN /\ ret'.kind = "returned"
             /\ HasEntry(cache', ret'.key)
             /\ cache'.m[ret'.key].data = ret'.value
             /\ ret'.value = IF ret'.req.op = "searchRepositories"
                              THEN Items(ret'.body) ELSE ret'.body
        ELSE /\ ret'.kind = "threw"
             /\ ret'.error.message.text \in
                   {"Invalid response: Expected object but received invalid data",
                    "Invalid response: Missing required field '%'",
                    "Invalid response: items field is not an array",
                    "Invalid response: Expected array of repositories"}
             /\ ~ret'.error.statusCode.some
             /\ cache' = cache
             /\ file' = file
             /\ ret'.sets = 0]_vars

\* C19 witness: a search whose payload has items and total_count, items not
\* being an array, has thrown and left the cache without an entry for its key
C19_Witness ==
    /\ ret.kind = "threw"
    /\ "body" \in DOMAIN ret
    /\ ret.req.op = "searchRepositories"
    /\ {"items", "total_count"} \subseteq ret.body.fields
    /\ ~ret.body.itemsIsArray
    /\ ~HasEntry(cache, ret.key)

-----------------------------------------------------------------------------
(* Properties of filterRepositories *)

Filtered == ret.kind = "filter"

\* The element satisfies every criterion that was supplied
Satisfies(repo, filters) ==
    /\ filters.language.some =>
          /\ repo.language # Null
          /\ toLowerCase(repo.language.s) = toLowerCase(filters.language.x)
    /\ filters.minStars.some => repo.stargazers_count >= filters.minStars.x
    /\ filters.maxStars.some => repo.stargazers_count <= filters.maxStars.x
    /\ filters.archived.some => repo.archived = filters.archived.x

\* The elements of seq, in order, that satisfy the filters
Selected(seq, filters) ==
    LET Test(repo) == Satisfies(repo, filters) IN SelectSeq(seq, Test)

\* C20: filterRepositories returns exactly the elements of its input, in input
\* order, that satisfy every supplied criterion: language equal ignoring case
\* (a null language fails), stars >= minStars, stars <= maxStars, archived
\* equal to the flag; what was not supplied excludes nothing and what was
\* supplied is applied, minStars = 0, maxStars = 0 and any language value
\* included.
C20_FilterAppliesEverySuppliedCriterion ==
    Filtered => ret.result = Selected(ret.repositories, ret.filters)

\* What filterRepositories does: the empty string as language counts as no
\* language, every other supplied criterion is applied
FilterTreatsEmptyLanguageAsNone ==
    Filtered =>
        ret.result =
            Selected(ret.repositories,
                     IF ret.filters.language = Some(<<>>)
                     THEN [ret.filters EXCEPT !.language = Absent] ELSE ret.filters)

\* The list with stars 50, 100, 300, 500, 900 under minStars = 100 and
\* maxStars = 500 gives the elements with stars 100, 300, 500
FilterStarsExample ==
    (Filtered /\ ret.repositories = StarsList
       /\ ret.filters = [language |-> Absent, minStars |-> Some(100),
                         maxStars |-> Some(500), archived |-> Absent])
      => ret.result = <<Repo(100), Repo(300), Repo(500)>>

\* The example has been run
FilterStarsExampleRun ==
    /\ Filtered
    /\ ret.repositories = StarsList
    /\ ret.filters.minStars = Some(100)
    /\ ret.filters.maxStars = Some(500)
    /\ Len(ret.result) = 3

\* The steps of filterRepositories, numbered as the code applies them
Step(n, filtered, filters) ==
    CASE n = 1 -> filterLanguage(filtered, filters)
      [] n = 2 -> filterMinStars(filtered, filters)
      [] n = 3 -> filterMaxStars(filtered, filters)
      [] n = 4 -> filterArchived(filtered, filters)

Orders == {p \in [1..4 -> 1..4] : \A m, n \in 1..4 : m # n => p[m] # p[n]}

\* The steps applied in the order p
InOrder(p, repositories, filters) ==
    Step(p[4], Step(p[3], Step(p[2], Step(p[1], repositories, filters), filters),
                     filters), filters)

\* C21: the result of filterRepositories does not depend on the order of its
\* four filters: for every list and every criteria, the language, minStars,
\* maxStars and archived steps applied in any of the 24 orders give the list
\* filterRepositories returns.
C21_AnyOrderOfFilters ==
    Filtered => \A p \in Orders : InOrder(p, ret.repositories, ret.filters) = ret.result

\* C21 witness: all four criteria were supplied, two of the steps each exclude
\* an element on their own, and an element was left
C21_Witness ==
    /\ Filtered
    /\ ret.filters.language.some /\ ret.filters.language.x # <<>>
    /\ ret.filters.minStars.some /\ ret.filters.maxStars.some /\ ret.filters.archived.some
    /\ \E m, n \in 1..4 :
          /\ m # n
          /\ Len(Step(m, ret.repositories, ret.filters)) < Len(ret.repositories)
          /\ Len(Step(n, ret.repositories, ret.filters)) < Len(ret.repositories)
    /\ ret.result # <<>>

-----------------------------------------------------------------------------
(* Properties of getRepositoryById *)

Found == ret.kind = "find"

\* The positions of the list whose element has the id
Matches(repositories, id) ==
    {n \in DOMAIN repositories : repositories[n].id = id /\ id # NaNV}

\* C22: getRepositoryById returns the first element, in list order, whose id
\* equals the given id, and undefined for an empty list or a list without a
\* match; it returns a value in every case.
C22_FirstMatchOrUndefined ==
    Found =>
        LET at == Matches(ret.repositories, ret.id)
        IN  IF at = {} THEN ret.result = Undefined
            ELSE \E n \in at :
                    /\ \A m \in at : n <= m
                    /\ ret.result = ret.repositories[n]

\* C22 witness: the id occurs twice, under two names, and the element
\* returned is the first of the two
C22_Witness ==
    /\ Found
    /\ Len(ret.repositories) = 2
    /\ ret.repositories[1].id = ret.id
    /\ ret.repositories[2].id = ret.id
    /\ ret.repositories[1] # ret.repositories[2]
    /\ ret.result = ret.repositories[1]

\* A lookup in a list that does not hold the id gave undefined
C22_AbsentReached ==
    /\ Found
    /\ ret.repositories # <<>>
    /\ ret.result = Undefined

-----------------------------------------------------------------------------
(* Further properties of the cache store *)

\* C23: cleanup writes cache.json if and only if it removed at least one
\* entry, and then with the map it is left with; when no entry is expired the
\* call leaves both the map and the file as they were.
C23_CleanupSavesIffRemoved ==
    [][CleanupStep =>
          /\ last'.saved <=> (DOMAIN cache'.m # DOMAIN cache.m)
          /\ last'.saved <=> last'.removed > 0
          /\ (last'.saved /\ last'.disk = "ok") =>
                (file'.kind = "object" /\ file'.m = cache'.m)
          /\ (\A k \in DOMAIN cache.m : now - cache.m[k].timestamp < cacheDuration) =>
                (~last'.saved /\ cache' = cache /\ file' = file)]_vars

\* C23 witness: a cleanup that found nothing expired in a map that holds an
\* entry the file does not, and wrote nothing
C23_Witness ==
    /\ last.op = "cleanup"
    /\ last.removed = 0
    /\ ~last.saved
    /\ cache.kind = "object"
    /\ file.kind = "object"
    /\ \E k \in DOMAIN cache.m : k \notin DOMAIN file.m

-----------------------------------------------------------------------------
(* Properties of concurrent calls of the DataService *)

\* Call c resumes after its await in this step and returns
Resumes(c) == calls[c].pc = "awaiting" /\ calls'[c].pc = "idle" /\ ret'.kind = "returned"

\* C24: nothing keeps a second call from fetching what a first call is already
\* fetching: a call that finds no valid entry under its key calls the API
\* client, whether or not another call is suspended on the same key; each call
\* that resumes performs its own set, and the entry under the key is then the
\* payload that call fetched with the time of that set.
C24_NoStampedeProtection ==
    [][/\ (last'.op = "get" /\ last'.result = Null) =>
             \E c \in DOMAIN calls :
                /\ calls[c].pc = "idle"
                /\ calls'[c].pc = "awaiting"
                /\ calls'[c].apiCalls = 1
                /\ DSKey(calls'[c].req) = generateKey(last'.endpoint, last'.params)
       /\ \A c \in DOMAIN calls :
             Resumes(c) =>
                /\ ret'.apiCalls = 1
                /\ ret'.sets = 1
                /\ cache'.m[ret'.key] = Entry(ret'.fetched, now)
                /\ ret'.value = ret'.fetched]_vars

\* C24 witness: a call that had found no entry has returned after replacing an
\* entry that was still valid, set meanwhile by the other call with another
\* payload at an earlier time
C24_Witness ==
    /\ ret.kind = "returned"
    /\ ret.via = "miss"
    /\ ret.replaced.some
    /\ now - ret.replaced.x.timestamp < cacheDuration
    /\ ret.replaced.x.timestamp < now
    /\ ret.replaced.x.data # ret.fetched
    /\ cache.m[ret.key] = Entry(ret.fetched, now)

\* A step that is a call of clear
ClearStep == last'.op = "clear"

\* C25: a set or a clear updates the map and writes it through in one step
\* that no other cache operation interrupts: under every interleaving of calls
\* that suspend only at their await, the map and the file change only in the
\* step in which a call resumes or in a clear; a resuming call adds its entry
\* to the map and keeps every other entry, a clear empties the map, the file
\* is the whole map if the write succeeded, and the entry of every set made
\* since the last clear is in the map.
C25_NoLostUpdate ==
    [][/\ (cache' # cache \/ file' # file) =>
             (ClearStep \/ \E c \in DOMAIN calls : Resumes(c))
       /\ ClearStep =>
             /\ cache'.m = EmptyMap
             /\ last'.disk = "ok" => (file'.kind = "object" /\ file'.m = cache'.m)
       /\ \A c \in DOMAIN calls :
             Resumes(c) =>
                /\ cache'.m = Put(cache.m, ret'.key, Entry(ret'.fetched, now))
                /\ ret'.disk = "ok" => (file'.kind = "object" /\ file'.m = cache'.m)
       /\ \A i \in DOMAIN written' :
             LET key == generateKey(i.endpoint, i.params)
             IN  /\ HasEntry(cache', key)
                 /\ cache'.m[key] = Entry(written'[i].data, written'[i].at)]_vars

\* C25 witness: all calls are complete; two of them were suspended on one key
\* together and each made its set, a call on another key made its own, the
\* write of one of these sets failed, and both keys are in the map and in the
\* file
C25_Witness ==
    /\ \A c \in DOMAIN calls : calls[c].pc = "idle"
    /\ ret.kind = "returned"
    /\ ret.via = "miss"
    /\ ret.replaced.some
    /\ ret.disk = "ok"
    /\ Cardinality(DOMAIN written) = 2
    /\ \E i \in DOMAIN written : written[i].disk # "ok"
    /\ \A i \in DOMAIN written : generateKey(i.endpoint, i.params) \in DOMAIN cache.m
    /\ file.kind = "object"
    /\ file.m = cache.m

-----------------------------------------------------------------------------
(* The frame of set *)

\* A step that is a call of set that did not throw, and the key it derives
SetStep == last'.op = "set" /\ last'.result # TypeError
SetKey == generateKey(last'.endpoint, last'.params)

\* C26: set changes the entry under its own key and no other: whether the key
\* was absent, valid or expired, it holds the new payload with the time of
\* the call afterwards and is valid, and every other key keeps its data and
\* timestamp; no operation but a set on its key changes the timestamp of an
\* entry.
C26_SetChangesOnlyItsKey ==
    [][IF SetStep
       THEN LET key == SetKey
            IN  /\ DOMAIN cache'.m = (DOMAIN cache.m) \cup {key}
                /\ cache'.m[key] = Entry(last'.data, now)
                /\ isValid(cache'.m[key], now)
                /\ getResult(cache', key, now) = last'.data
                /\ \A k \in (DOMAIN cache.m) \ {key} : cache'.m[k] = cache.m[k]
       ELSE \A k \in (DOMAIN cache.m) \cap (DOMAIN cache'.m) :
               cache'.m[k].timestamp = cache.m[k].timestamp]_vars

\* C26 witness: a set on a key whose entry had expired (the file, which the
\* failed write of this set left alone, still holds it) made the key valid
\* again, beside another key that is expired and kept its timestamp
C26_Witness ==
    /\ last.op = "set"
    /\ last.disk = "eopen"
    /\ file.kind = "object"
    /\ LastKey \in DOMAIN file.m
    /\ now - file.m[LastKey].timestamp >= cacheDuration
    /\ cache.m[LastKey] = Entry(last.data, now)
    /\ \E k \in DOMAIN cache.m :
          k # LastKey /\ now - cache.m[k].timestamp >= cacheDuration

-----------------------------------------------------------------------------
(* Memory and disk after failed writes *)

\* A step in which saveCache runs: a set, a clear, or a cleanup that removed
\* something
SaveStep ==
    /\ last'.op \in {"set", "clear"} \/ (last'.op = "cleanup" /\ last'.saved)
    /\ last'.result # TypeError

\* The file is the text of the whole map
FileIsMap == file'.kind = "object" /\ file'.m = cache'.m

\* C27, as stated: a save that succeeds leaves the file equal to the whole
\* map, the entries whose own save failed included, and until then the file
\* holds the map of the last save that succeeded: no other step changes it.
C27_FileIsLastPersistedMap ==
    [][IF SaveStep /\ last'.disk = "ok" THEN FileIsMap ELSE file' = file]_vars

\* C27, amended: a save that succeeds leaves the file equal to the whole map,
\* the entries whose own save failed included.  Until then the file is what
\* the last successful save wrote, unless a save failed after the file had
\* been opened: then the file is a cut-off text that holds no entry and loads
\* as an empty cache.  The file never holds entries of two different maps.
C27_FileIsMapOrCutOff ==
    [][CASE SaveStep /\ last'.disk = "ok" -> FileIsMap
         [] SaveStep /\ last'.disk = "eopen" -> file' = file
         [] SaveStep /\ last'.disk = "ewrite" ->
               /\ file'.kind = "garbage"
               /\ file'.m = EmptyMap
               /\ loadCache(file') = EmptyObject
         [] OTHER -> file' = file]_vars

\* C27 witness: a set whose write succeeded after the write of a set on
\* another key had failed half way; the file holds the whole map, the entry
\* of the failed write included
C27_Witness ==
    /\ last.op = "set"
    /\ last.disk = "ok"
    /\ file.kind = "object"
    /\ file.m = cache.m
    /\ \E i \in DOMAIN written :
          /\ written[i].disk = "ewrite"
          /\ generateKey(i.endpoint, i.params) # LastKey
          /\ file.m[generateKey(i.endpoint, i.params)] =
                Entry(written[i].data, written[i].at)

====
